---------------------------- MODULE Spec2Model ----------------------------
(***************************************************************************)
(* Model of SpectroPosterior (docs/source/docs_image_production.py): the   *)
(* forward model of a two-peak spectrum, the Gaussian log-likelihood, the  *)
(* flat prior and the call operator, evaluated on one posterior object.    *)
(*                                                                         *)
(* Numbers.  A float is modelled as a pair <<n, d>> of integers in lowest  *)
(* terms with d >= 0: d > 0 is the finite value n/d, <<1,0>> is +inf,      *)
(* <<-1,0>> is -inf and <<0,0>> is NaN.  Finite arithmetic is exact        *)
(* (rounding, overflow to infinity and the sign of zero are not modelled); *)
(* the non-finite cases follow IEEE-754 as numpy applies it.               *)
(***************************************************************************)
EXTENDS Integers, Sequences, FiniteSets, TLC

---------------------------------------------------------------------------
(* Integer helpers *)

Abs(n) == IF n < 0 THEN -n ELSE n

Sgn(n) == IF n < 0 THEN -1 ELSE IF n = 0 THEN 0 ELSE 1

RECURSIVE GCD(_, _)
GCD(a, b) == IF b = 0 THEN Abs(a) ELSE GCD(b, a % Abs(b))

---------------------------------------------------------------------------
(* Float values *)

NaN == <<0, 0>>

Inf(s) == <<s, 0>>

Zero == <<0, 1>>

One == <<1, 1>>

FromInt(n) == <<n, 1>>

\* n/d, d # 0, in lowest terms with a positive denominator
Rat(n, d) ==
    LET g == GCD(n, d)
        s == Sgn(d)
    IN  <<s * (n \div g), s * (d \div g)>>

IsNaN(v) == v = NaN

IsInf(v) == v[2] = 0 /\ v[1] # 0

IsFinite(v) == v[2] # 0

IsZero(v) == v[2] # 0 /\ v[1] = 0

Neg(v) == <<-v[1], v[2]>>

\* a + b
Add(a, b) ==
    IF IsNaN(a) \/ IsNaN(b) THEN NaN
    ELSE IF IsInf(a) /\ IsInf(b) THEN (IF a = b THEN a ELSE NaN)
    ELSE IF IsInf(a) THEN a
    ELSE IF IsInf(b) THEN b
    ELSE LET g == GCD(a[2], b[2])
         IN  Rat(a[1] * (b[2] \div g) + b[1] * (a[2] \div g),
                 (a[2] \div g) * b[2])

\* a - b
Sub(a, b) == Add(a, Neg(b))

\* a * b
Mul(a, b) ==
    IF IsNaN(a) \/ IsNaN(b) THEN NaN
    ELSE IF IsInf(a) \/ IsInf(b)
         THEN (IF a[1] = 0 \/ b[1] = 0 THEN NaN ELSE Inf(Sgn(a[1]) * Sgn(b[1])))
    ELSE LET g1 == GCD(a[1], b[2])
             g2 == GCD(b[1], a[2])
         IN  Rat((a[1] \div g1) * (b[1] \div g2), (a[2] \div g2) * (b[2] \div g1))

\* a / b where an operand is a numpy scalar or array: a zero divisor gives
\* inf or nan (with a RuntimeWarning), never an exception
Div(a, b) ==
    IF IsNaN(a) \/ IsNaN(b) THEN NaN
    ELSE IF IsInf(b) THEN (IF IsInf(a) THEN NaN ELSE Zero)
    ELSE IF IsInf(a) THEN Inf(a[1] * (IF b[1] < 0 THEN -1 ELSE 1))
    ELSE IF b[1] = 0 THEN (IF a[1] = 0 THEN NaN ELSE Inf(Sgn(a[1])))
    ELSE Mul(a, Rat(b[2], b[1]))

\* a ** 2
Sq(a) == Mul(a, a)

\* a < b as the comparison operator gives it (False when an operand is nan)
Less(a, b) ==
    IF IsNaN(a) \/ IsNaN(b) THEN FALSE
    ELSE IF IsInf(a) \/ IsInf(b)
         THEN (IF IsInf(a) /\ IsInf(b) THEN a[1] < b[1]
               ELSE IF IsInf(a) THEN a[1] < 0
               ELSE b[1] > 0)
    ELSE LET g == GCD(a[2], b[2])
         IN  a[1] * (b[2] \div g) < b[1] * (a[2] \div g)

---------------------------------------------------------------------------
(* Arrays (numpy 1-D arrays) are sequences of float values *)

None == <<>>

\* builtin max / min over an array: a left-to-right scan keeping the first
\* extreme element
RECURSIVE max_from(_, _, _)
max_from(xs, i, best) ==
    IF i > Len(xs) THEN best
    ELSE max_from(xs, i + 1, IF Less(best, xs[i]) THEN xs[i] ELSE best)

max(xs) == max_from(xs, 2, xs[1])

\* min, a mutant that takes the grid to be sorted: its first point
min_first(xs) == xs[1]

RECURSIVE min_from(_, _, _)
min_from(xs, i, best) ==
    IF i > Len(xs) THEN best
    ELSE min_from(xs, i + 1, IF Less(xs[i], best) THEN xs[i] ELSE best)

min(xs) == min_from(xs, 2, xs[1])

\* builtin sum: 0 + a[1] + a[2] + ...
RECURSIVE sum_from(_, _, _)
sum_from(xs, i, acc) ==
    IF i > Len(xs) THEN acc ELSE sum_from(xs, i + 1, Add(acc, xs[i]))

sum(xs) == sum_from(xs, 1, Zero)

---------------------------------------------------------------------------
(* Outcome of a call: a returned value or a raised exception *)

Return(v) == [exc |-> "none", val |-> v]

Raise(e) == [exc |-> e, val |-> None]

Raised(o) == o.exc # "none"

---------------------------------------------------------------------------
(* SpectroPosterior *)

\* numpy.pi, a plain Python float; the model takes the rational 22/7
PiNum == 22

PiDen == 7

pi == Rat(PiNum, PiDen)

\* Central wavelengths of the lines, set by __init__
C1Value == 422

C2Value == 428

\* __init__(self, wavelength, intensity, errors)
init(wavelength, intensity, errors) ==
    [x |-> wavelength, y |-> intensity, sigma |-> errors,
     c1 |-> FromInt(C1Value), c2 |-> FromInt(C2Value)]

\* amplitude_raises, a mutant in which plain numbers divide as numpy scalars do
amplitude_never_raises(A, w, kind) == FALSE

\* A / (pi*w): the operands are the elements of theta.  Plain Python numbers
\* divide as Python floats, and a zero divisor raises ZeroDivisionError;
\* numpy scalars (theta a numpy array) divide as numpy does.
amplitude_raises(A, w, kind) == kind = "py" /\ IsZero(Mul(pi, w))

\* (A / (pi*w)) / (1 + ((x - c)/w)**2), elementwise over the array x
peak(A, w, c, x) ==
    [i \in 1..Len(x) |->
        Div(Div(A, Mul(pi, w)), Add(One, Sq(Div(Sub(x[i], c), w))))]

\* slope, a mutant that takes the grid to be sorted: (b1-b0)/(x[-1] - x[0])
slope_sorted(x, b0, b1) == Div(Sub(b1, b0), Sub(x[Len(x)], x[1]))

\* d = (b1-b0)/(max(x) - min(x)); max(x) - min(x) is a numpy scalar
slope(x, b0, b1) == Div(Sub(b1, b0), Sub(max(x), min(x)))

\* background = d*x + (b0 - d*min(x))
background(x, b0, b1) ==
    LET d == slope(x, b0, b1)
    IN  [i \in 1..Len(x) |-> Add(Mul(d, x[i]), Sub(b0, Mul(d, min(x))))]

\* peak_1 + peak_2 + background
prediction(peak_1, peak_2, bg) ==
    [i \in 1..Len(bg) |-> Add(Add(peak_1[i], peak_2[i]), bg[i])]

\* forward_model(self, x, theta); kind tells how the caller supplies theta:
\* "py" a sequence of plain numbers, "np" a numpy array
forward_model(obj, x, theta, kind) ==
    LET A1 == theta[1]
        w1 == theta[2]
        A2 == theta[3]
        w2 == theta[4]
        b0 == theta[5]
        b1 == theta[6]
    IN  IF amplitude_raises(A1, w1, kind) \/ amplitude_raises(A2, w2, kind)
        THEN Raise("ZeroDivisionError")
        ELSE Return(prediction(peak(A1, w1, obj.c1, x), peak(A2, w2, obj.c2, x),
                               background(x, b0, b1)))

\* -0.5*sum( ((y - fm) / sigma)**2 ) for arrays y, fm, sigma
chi2(y, fm, sigma) ==
    Mul(Rat(-1, 2), sum([i \in 1..Len(fm) |-> Sq(Div(Sub(y[i], fm[i]), sigma[i]))]))

\* likelihood, a mutant with the sign of the sum lost
likelihood_positive(obj, theta, kind) ==
    LET fm == forward_model(obj, obj.x, theta, kind)
    IN  IF Raised(fm) THEN fm
        ELSE IF obj.y = None \/ obj.sigma = None THEN Raise("TypeError")
        ELSE Return(Neg(chi2(obj.y, fm.val, obj.sigma)))

\* likelihood, a mutant that returns 0 when the data are absent
likelihood_silent(obj, theta, kind) ==
    LET fm == forward_model(obj, obj.x, theta, kind)
    IN  IF Raised(fm) THEN fm
        ELSE IF obj.y = None \/ obj.sigma = None THEN Return(Zero)
        ELSE Return(chi2(obj.y, fm.val, obj.sigma))

\* likelihood, a mutant that squares the residual only: ((y - fm)**2 / sigma)
likelihood_residual_squared(obj, theta, kind) ==
    LET fm == forward_model(obj, obj.x, theta, kind)
    IN  IF Raised(fm) THEN fm
        ELSE IF obj.y = None \/ obj.sigma = None THEN Raise("TypeError")
        ELSE Return(Mul(Rat(-1, 2),
                 sum([i \in 1..Len(fm.val) |->
                        Div(Sq(Sub(obj.y[i], fm.val[i])), obj.sigma[i])])))

\* likelihood(self, theta):
\*   -0.5*sum( ((self.y - self.forward_model(self.x, theta)) / self.sigma)**2 )
\* None - array and array / None raise TypeError
likelihood(obj, theta, kind) ==
    LET fm == forward_model(obj, obj.x, theta, kind)
    IN  IF Raised(fm) THEN fm
        ELSE IF obj.y = None \/ obj.sigma = None THEN Raise("TypeError")
        ELSE Return(chi2(obj.y, fm.val, obj.sigma))

\* prior, a mutant that returns 1
prior_nonzero(obj, theta) == One

\* prior(self, theta)
prior(obj, theta) == Zero

\* __call__(self, theta)
call(obj, theta, kind) ==
    LET l == likelihood(obj, theta, kind)
    IN  IF Raised(l) THEN l ELSE Return(Add(l.val, prior(obj, theta)))

---------------------------------------------------------------------------
(* Inputs *)

\* longest wavelength grid handed to forward_model
MaxLen == 2

\* wavelengths the grids are built from: the two line centres and a point
\* between them
XPoints == {FromInt(C1Value), FromInt(425), FromInt(C2Value)}

\* every grid of at most MaxLen points, in any order, constant grids included
XArrays == UNION {[1..n -> XPoints] : n \in 1..MaxLen}

\* the grids a posterior object is constructed with
XData == {<<FromInt(C1Value), FromInt(C2Value)>>, <<FromInt(C2Value), FromInt(425)>>}

\* a constant grid: min(x) = max(x)
XConst == <<FromInt(425), FromInt(425)>>

\* parameter vectors (A1, w1, A2, w2, b0, b1) synthetic data is generated from
ThetaStar ==
    <<FromInt(22), FromInt(3), FromInt(22), FromInt(-3), FromInt(1), FromInt(2)>>

ThetaFlat ==
    <<FromInt(0), FromInt(6), FromInt(22), FromInt(3), FromInt(2), FromInt(2)>>

ThetaStars == {ThetaStar, ThetaFlat}

\* perturbations of one component
Eps == {FromInt(-1), FromInt(1)}

Perturb(theta, k, eps) == [theta EXCEPT ![k] = Add(theta[k], eps)]

Perturbed(theta) == {Perturb(theta, k, eps) : k \in 1..6, eps \in Eps}

\* a width set to zero
ZeroWidth(theta) == {[theta EXCEPT ![k] = Zero] : k \in {2, 4}}

ZeroW(theta) == IsZero(theta[2]) \/ IsZero(theta[4])

\* how the caller supplies theta: "py" a sequence of plain numbers (lines 53
\* and 77), "np" a numpy array (the sampler's proposals and draws, line 143)
Kinds == {"py", "np"}

\* vectors supplied either way
Plain == ThetaStars \cup ZeroWidth(ThetaStar)

\* the parameter vectors evaluated
Thetas == Plain \cup Perturbed(ThetaStar)

\* <<theta, kind>> as handed to the posterior, and to forward_model
Supplied == (Plain \X {"py"}) \cup (Thetas \X {"np"})

SuppliedFM == Plain \X Kinds

\* noise added to the synthetic data (line 56)
Noises == {Zero, One}

Const(n, v) == [i \in 1..n |-> v]

\* the intensities an object is constructed with: absent, or synthetic data
Intensities(xs) ==
    {None} \cup
    { [i \in 1..Len(xs) |->
          Add(forward_model(init(xs, None, None), xs, theta, "py").val[i],
              IF i = 1 THEN noise ELSE Neg(noise))]
      : theta \in ThetaStars, noise \in Noises }

\* the errors an object is constructed with: absent, or positive
Errors(xs) ==
    {None, Const(Len(xs), One), Const(Len(xs), FromInt(2)),
     [i \in 1..Len(xs) |-> FromInt(i)]}

---------------------------------------------------------------------------
(* State *)

\* threads evaluating the one posterior object concurrently
NumCallers == 2

Callers == 1..NumCallers

VARIABLES
    self,    \* the posterior object: its fields x, y, sigma, c1, c2
    ctor,    \* the arguments it was constructed with
    last,    \* the evaluation completed last: operation, arguments, outcome
    failed,  \* an earlier evaluation raised or returned a non-finite value
    callers  \* per thread: the call in progress, its position and its locals

vars == <<self, ctor, last, failed, callers>>

NoCall == [op |-> "none", theta |-> None, kind |-> "py", x |-> None,
           out |-> Return(None)]

\* a thread outside any call
Idle == [pc |-> "idle", op |-> "none", theta |-> None, kind |-> "py", x |-> None,
         y |-> None, peak_1 |-> None, acc |-> None, out |-> Return(None),
         mixed |-> FALSE]

AllFinite(xs) == \A i \in 1..Len(xs) : IsFinite(xs[i])

\* an outcome that is an exception or holds a non-finite number
Bad(op, out) ==
    \/ Raised(out)
    \/ op = "forward_model" /\ ~AllFinite(out.val)
    \/ op # "forward_model" /\ ~IsFinite(out.val)

\* the object as __init__ leaves it
Constructed(xs, ys, es) ==
    /\ ctor = [wavelength |-> xs, intensity |-> ys, errors |-> es]
    /\ self = init(xs, ys, es)
    /\ last = NoCall
    /\ failed = FALSE
    /\ callers = [c \in Callers |-> Idle]

Init ==
    \E xs \in XData : \E ys \in Intensities(xs) : \E es \in Errors(xs) :
        Constructed(xs, ys, es)

\* what every evaluation records; the object is only read
Record(op, theta, kind, x, out) ==
    /\ last' = [op |-> op, theta |-> theta, kind |-> kind, x |-> x, out |-> out]
    /\ failed' = (failed \/ (last.op # "none" /\ Bad(last.op, last.out)))
    /\ UNCHANGED <<self, ctor, callers>>

\* posterior(theta)
Call(theta, kind) == Record("call", theta, kind, None, call(self, theta, kind))

\* posterior.likelihood(theta)
Likelihood(theta, kind) ==
    Record("likelihood", theta, kind, None, likelihood(self, theta, kind))

\* posterior.prior(theta)
Prior(theta, kind) == Record("prior", theta, kind, None, Return(prior(self, theta)))

\* posterior.forward_model(x, theta): a mutant that keeps the grid on the object
ForwardModel_caching(x, theta, kind) ==
    /\ last' = [op |-> "forward_model", theta |-> theta, kind |-> kind, x |-> x,
                out |-> forward_model(self, x, theta, kind)]
    /\ failed' = (failed \/ (last.op # "none" /\ Bad(last.op, last.out)))
    /\ self' = [self EXCEPT !.x = x]
    /\ UNCHANGED <<ctor, callers>>

\* posterior.forward_model(x, theta)
ForwardModel(x, theta, kind) ==
    Record("forward_model", theta, kind, x, forward_model(self, x, theta, kind))

\* Any sequence of evaluations of one posterior object
Next ==
    \/ \E p \in Supplied : Call(p[1], p[2])
    \/ \E p \in Supplied : Likelihood(p[1], p[2])
    \/ \E p \in Supplied : Prior(p[1], p[2])
    \/ \E x \in {self.x, XConst}, p \in SuppliedFM : ForwardModel(x, p[1], p[2])

Spec == Init /\ [][Next]_vars

\* The forward model alone, on an object built for simulation (line 52),
\* replayed on every grid
InitFM == \E xs \in XData : Constructed(xs, None, None)

NextFM == \E x \in XArrays, p \in SuppliedFM : ForwardModel(x, p[1], p[2])

SpecFM == InitFM /\ [][NextFM]_vars

---------------------------------------------------------------------------
(* Concurrent evaluation: each thread runs one call at a time; a step is the
   code up to and including its next read of a field of the object *)

InFlight(r) == r.pc \notin {"idle", "done"}

\* thread c moves to r; every other thread in a call has now been interleaved
Step(c, r) ==
    /\ callers' = [t \in Callers |->
                     IF t = c THEN r
                     ELSE IF InFlight(callers[t])
                          THEN [callers[t] EXCEPT !.mixed = TRUE]
                          ELSE callers[t]]
    /\ UNCHANGED <<self, ctor, last, failed>>

\* the call returns or raises: its frame goes, its outcome stays
Finish(r, out) ==
    [Idle EXCEPT !.pc = "done", !.op = r.op, !.theta = r.theta, !.kind = r.kind,
                 !.x = IF r.op = "forward_model" THEN r.x ELSE None,
                 !.out = out, !.mixed = r.mixed]

\* a thread calls posterior(theta), likelihood(theta), prior(theta) or
\* forward_model(x, theta)
Begin(c, op, x, theta, kind) ==
    /\ callers[c].pc = "idle"
    /\ Step(c, [Idle EXCEPT !.op = op, !.theta = theta, !.kind = kind,
                            !.x = IF op = "forward_model" THEN x ELSE None,
                            !.pc = CASE op = "prior" -> "prior"
                                     [] op = "forward_model" -> "peak_1"
                                     [] OTHER -> "read_y"])

\* likelihood: self.y is loaded
ReadY(c) ==
    /\ callers[c].pc = "read_y"
    /\ Step(c, [callers[c] EXCEPT !.pc = "read_x", !.y = self.y])

\* likelihood: self.x is loaded and handed to forward_model
ReadX(c) ==
    /\ callers[c].pc = "read_x"
    /\ Step(c, [callers[c] EXCEPT !.pc = "peak_1", !.x = self.x])

\* forward_model: peak_1, which reads self.c1
Peak1(c) ==
    LET r == callers[c]
    IN  /\ r.pc = "peak_1"
        /\ Step(c, IF amplitude_raises(r.theta[1], r.theta[2], r.kind)
                   THEN Finish(r, Raise("ZeroDivisionError"))
                   ELSE [r EXCEPT !.pc = "peak_2",
                           !.peak_1 = peak(r.theta[1], r.theta[2], self.c1, r.x)])

\* what forward_model hands back from its last step
Peak2Result(r) ==
    IF amplitude_raises(r.theta[3], r.theta[4], r.kind)
    THEN Finish(r, Raise("ZeroDivisionError"))
    ELSE LET fm == prediction(r.peak_1,
                              peak(r.theta[3], r.theta[4], self.c2, r.x),
                              background(r.x, r.theta[5], r.theta[6]))
         IN  IF r.op = "forward_model"
             THEN Finish(r, Return(fm))
             ELSE [r EXCEPT !.pc = "residual", !.acc = fm, !.peak_1 = None]

\* forward_model's last step, a mutant that keeps the grid on the object
Peak2_caching(c) ==
    /\ callers[c].pc = "peak_2"
    /\ callers' = [callers EXCEPT ![c] = Peak2Result(callers[c])]
    /\ self' = [self EXCEPT !.x = callers[c].x]
    /\ UNCHANGED <<ctor, last, failed>>

\* forward_model: peak_2, which reads self.c2, then the background and the sum
Peak2(c) ==
    /\ callers[c].pc = "peak_2"
    /\ Step(c, Peak2Result(callers[c]))

\* likelihood: the residual (TypeError when y is None), self.sigma is loaded
\* (TypeError when it is None), then the sum
Residual(c) ==
    LET r == callers[c]
    IN  /\ r.pc = "residual"
        /\ Step(c, IF r.y = None \/ self.sigma = None
                   THEN Finish(r, Raise("TypeError"))
                   ELSE LET l == chi2(r.y, r.acc, self.sigma)
                        IN  IF r.op = "likelihood"
                            THEN Finish(r, Return(l))
                            ELSE [r EXCEPT !.pc = "prior", !.acc = l,
                                           !.x = None, !.y = None])

\* prior; in a call of the object its value is added to the likelihood
PriorStep(c) ==
    LET r == callers[c]
    IN  /\ r.pc = "prior"
        /\ Step(c, Finish(r, Return(IF r.op = "prior" THEN prior(self, r.theta)
                                    ELSE Add(r.acc, prior(self, r.theta)))))

\* the thread takes the outcome and is free for another call
TakeResult(c) ==
    /\ callers[c].pc = "done"
    /\ Step(c, Idle)

Ops == {"call", "likelihood", "prior", "forward_model"}

\* what the concurrent callers supply: a valid array, and a plain sequence
\* whose second width is zero
SuppliedConc == {<<ThetaStar, "np">>, <<[ThetaStar EXCEPT ![4] = Zero], "py">>}

InitConc ==
    \E xs \in {<<FromInt(C1Value), FromInt(C2Value)>>} :
        \E d \in {<<None, None>>,
                  <<CHOOSE ys \in Intensities(xs) : ys # None, Const(Len(xs), FromInt(2))>>} :
            Constructed(xs, d[1], d[2])

NextConc ==
    \E c \in Callers :
        \/ \E op \in Ops, p \in SuppliedConc : Begin(c, op, XConst, p[1], p[2])
        \/ ReadY(c)
        \/ ReadX(c)
        \/ Peak1(c)
        \/ Peak2(c)
        \/ Residual(c)
        \/ PriorStep(c)
        \/ TakeResult(c)

SpecConc == InitConc /\ [][NextConc]_vars

---------------------------------------------------------------------------
(* Properties *)

\* the object as constructed from the same arguments
Fresh == init(ctor.wavelength, ctor.intensity, ctor.errors)

\* the value an evaluation returns when it runs alone on obj
Evaluate(obj, op, x, theta, kind) ==
    CASE op = "call" -> call(obj, theta, kind)
      [] op = "likelihood" -> likelihood(obj, theta, kind)
      [] op = "prior" -> Return(prior(obj, theta))
      [] op = "forward_model" -> forward_model(obj, x, theta, kind)

HasData == self.y # None /\ self.sigma # None

\* the least and the greatest value of a grid
Lowest(xs) ==
    CHOOSE v \in {xs[i] : i \in 1..Len(xs)} : \A i \in 1..Len(xs) : ~Less(xs[i], v)

Highest(xs) ==
    CHOOSE v \in {xs[i] : i \in 1..Len(xs)} : \A i \in 1..Len(xs) : ~Less(v, xs[i])

Distinct(xs) == Lowest(xs) # Highest(xs)

\* C1: a call of the posterior object returns likelihood(theta) + prior(theta);
\* prior(theta) is 0 for every theta, so the call's outcome is exactly the
\* outcome of likelihood(theta).
C1_CallEqualsLikelihood ==
    /\ last.op = "prior" => last.out = Return(Zero)
    /\ last.op = "call" =>
          /\ last.out = likelihood(self, last.theta, last.kind)
          /\ ~Raised(last.out) =>
                last.out.val = Add(likelihood(self, last.theta, last.kind).val,
                                   prior(self, last.theta))

C1_Witness ==
    /\ HasData
    /\ last.op = "call"
    /\ ~Raised(last.out)
    /\ IsFinite(last.out.val)
    /\ Less(last.out.val, Zero)

\* y is the noiseless data forward_model(x, star) and sigma a positive constant
Noiseless(star) ==
    /\ HasData
    /\ self.y = forward_model(self, self.x, star, "np").val
    /\ \A i \in 1..Len(self.sigma) :
          self.sigma[i] = self.sigma[1] /\ Less(Zero, self.sigma[i])

\* C2: with noiseless data generated from theta* and a constant positive sigma,
\* the likelihood of theta* perturbed in one component is not greater than the
\* likelihood of theta*.
C2_LocalMaximum ==
    \A star \in ThetaStars :
        (/\ Noiseless(star)
         /\ last.op = "likelihood"
         /\ last.theta \in Perturbed(star)
         /\ ~Raised(last.out))
        => ~Less(likelihood(self, star, last.kind).val, last.out.val)

C2_Witness ==
    /\ Noiseless(ThetaStar)
    /\ last.op = "likelihood"
    /\ last.theta \in Perturbed(ThetaStar)
    /\ ~Raised(last.out)
    /\ likelihood(self, ThetaStar, last.kind).val = Zero
    /\ Less(last.out.val, Zero)

\* C3: on an object constructed with y or sigma absent, every call of
\* likelihood or of the object raises and returns no number; forward_model
\* still returns a prediction (for every theta with non-zero widths, finite
\* when x has two distinct values); the object stays as constructed.
C3_AbsentDataFails ==
    ~HasData =>
        /\ last.op \in {"likelihood", "call"} => Raised(last.out)
        /\ (last.op = "forward_model" /\ ~ZeroW(last.theta)) =>
              /\ ~Raised(last.out)
              /\ Len(last.out.val) = Len(last.x)
              /\ Distinct(last.x) => AllFinite(last.out.val)
        /\ self = Fresh

C3_Witness ==
    /\ self.y = None
    /\ failed
    /\ last.op = "likelihood"
    /\ ~ZeroW(last.theta)
    /\ last.out = Raise("TypeError")

\* C4: forward_model on a grid whose minimum equals its maximum raises.
C4_DegenerateRaises ==
    (last.op = "forward_model" /\ ~Distinct(last.x)) => Raised(last.out)

\* the prediction minus the two peak terms
MinusPeaks(obj, x, theta, pred) ==
    LET p1 == peak(theta[1], theta[2], obj.c1, x)
        p2 == peak(theta[3], theta[4], obj.c2, x)
    IN  [i \in 1..Len(x) |-> Sub(Sub(pred[i], p1[i]), p2[i])]

\* C5: for x with two distinct values and non-zero widths, the prediction
\* minus the two peaks is b0 at every point equal to min(x) and b1 at every
\* point equal to max(x), whatever the order of the points.
C5_BackgroundEndpoints ==
    (/\ last.op = "forward_model"
     /\ Distinct(last.x)
     /\ ~ZeroW(last.theta))
    => /\ ~Raised(last.out)
       /\ LET bg == MinusPeaks(self, last.x, last.theta, last.out.val)
          IN  \A i \in 1..Len(last.x) :
                 /\ last.x[i] = Lowest(last.x) => bg[i] = last.theta[5]
                 /\ last.x[i] = Highest(last.x) => bg[i] = last.theta[6]

C5_Witness ==
    /\ last.op = "forward_model"
    /\ ~Raised(last.out)
    /\ ~ZeroW(last.theta)
    /\ last.theta[5] # last.theta[6]
    /\ Len(last.x) > 1
    /\ Less(last.x[2], last.x[1])
    /\ AllFinite(last.out.val)

\* factors sigma is scaled by
Scales == {FromInt(2), FromInt(3), Rat(1, 2)}

ScaledSigma(obj, k) ==
    [obj EXCEPT !.sigma = [i \in 1..Len(obj.sigma) |-> Mul(k, obj.sigma[i])]]

\* C6: replacing every sigma_i by k*sigma_i, k > 0, multiplies
\* likelihood(theta) by 1/k^2.
C6_SigmaScaling ==
    (last.op = "likelihood" /\ ~Raised(last.out)) =>
        \A k \in Scales :
            likelihood(ScaledSigma(self, k), last.theta, last.kind).val
                = Mul(last.out.val, Div(One, Sq(k)))

C6_Witness ==
    /\ last.op = "likelihood"
    /\ ~Raised(last.out)
    /\ Less(last.out.val, Zero)
    /\ self.sigma[1] # self.sigma[2]

\* C8: after evaluations that raised or returned a non-finite value, an
\* evaluation returns what it returns on a freshly constructed object with the
\* same data, and the object is as constructed.
C8_FailuresLeaveNoTrace ==
    (failed /\ last.op # "none") =>
        /\ last.out = Evaluate(Fresh, last.op, last.x, last.theta, last.kind)
        /\ self = Fresh

C8_Witness ==
    /\ failed
    /\ HasData
    /\ last.op = "call"
    /\ ~Bad(last.op, last.out)
    /\ Less(last.out.val, Zero)

\* C9 as stated: a zero width never raises, for either way of supplying theta;
\* the prediction holds a non-finite value.
C9_ZeroWidthNeverRaises ==
    (last.op = "forward_model" /\ ZeroW(last.theta)) =>
        /\ ~Raised(last.out)
        /\ \E i \in 1..Len(last.x) : ~IsFinite(last.out.val[i])

\* C9 amended: with theta a numpy array a zero width gives a prediction that is
\* NaN at every point and no exception; with theta a sequence of plain numbers
\* A/(pi*w) raises ZeroDivisionError.
C9_ZeroWidthByKind ==
    (last.op = "forward_model" /\ ZeroW(last.theta)) =>
        IF last.kind = "np"
        THEN /\ ~Raised(last.out)
             /\ \A i \in 1..Len(last.x) : IsNaN(last.out.val[i])
        ELSE last.out = Raise("ZeroDivisionError")

C9_Witness ==
    /\ last.op = "forward_model"
    /\ ZeroW(last.theta)
    /\ last.kind = "np"
    /\ Distinct(last.x)
    /\ ~Raised(last.out)
    /\ failed

SameRange(x1, x2) == Lowest(x1) = Lowest(x2) /\ Highest(x1) = Highest(x2)

\* C10: the prediction at a point depends on the grid only through the point,
\* min(x) and max(x): two grids with the same minimum and maximum give the same
\* prediction at every shared point; the peak terms at a shared point are the
\* same for any two grids, so between two grids that each have two distinct
\* values only the background term changes (NaN counts as one value).
C10_GridDependence ==
    (last.op = "forward_model" /\ ~Raised(last.out)) =>
        \A x2 \in XArrays :
            LET other == forward_model(self, x2, last.theta, last.kind).val
                th == last.theta
            IN  \A i \in 1..Len(last.x), j \in 1..Len(x2) :
                   last.x[i] = x2[j] =>
                      /\ peak(th[1], th[2], self.c1, last.x)[i]
                            = peak(th[1], th[2], self.c1, x2)[j]
                      /\ peak(th[3], th[4], self.c2, last.x)[i]
                            = peak(th[3], th[4], self.c2, x2)[j]
                      /\ SameRange(last.x, x2) => last.out.val[i] = other[j]
                      /\ (Distinct(last.x) /\ Distinct(x2)) =>
                            Sub(last.out.val[i], background(last.x, th[5], th[6])[i])
                               = Sub(other[j], background(x2, th[5], th[6])[j])

C10_Witness ==
    /\ last.op = "forward_model"
    /\ ~Raised(last.out)
    /\ AllFinite(last.out.val)
    /\ \E x2 \in XArrays :
          /\ x2 # last.x
          /\ SameRange(last.x, x2)
          /\ \E i \in 1..Len(last.x), j \in 1..Len(x2) : last.x[i] = x2[j]
    /\ \E x3 \in XArrays :
          /\ ~SameRange(last.x, x3)
          /\ Distinct(x3)
          /\ \E i \in 1..Len(last.x), j \in 1..Len(x3) :
                /\ last.x[i] = x3[j]
                /\ last.out.val[i]
                      # forward_model(self, x3, last.theta, last.kind).val[j]

\* C7: with calls of the object, likelihood, prior and forward_model
\* interleaved in any order by several threads, every finished call holds the
\* value it returns when run alone, and the object is as constructed.
C7_ConcurrentCallsAgree ==
    /\ \A c \in Callers :
          callers[c].pc = "done" =>
              callers[c].out = Evaluate(Fresh, callers[c].op, callers[c].x,
                                        callers[c].theta, callers[c].kind)
    /\ self = Fresh

C7_Witness ==
    \E c, t \in Callers :
        /\ c # t
        /\ callers[c].pc = "done"
        /\ callers[c].op = "call"
        /\ callers[c].mixed
        /\ ~Raised(callers[c].out)
        /\ Less(callers[c].out.val, Zero)
        /\ callers[t].pc = "done"
        /\ callers[t].op = "forward_model"
        /\ callers[t].mixed

=============================================================================
